---- MODULE Spec2Model ----
(***************************************************************************)
(* The agent orchestration layer of ia-chat-mvp: BaseAgent (run, chat,      *)
(* reset_conversation, get_conversation_history), the three agent variants *)
(* (get_capabilities) and CoordinatorAgent (register_agent, plan_task,     *)
(* delegate_and_synthesize), over the OllamaClient transport.               *)
(*                                                                         *)
(* A text is a sequence of tokens (strings); concatenating texts is \o.    *)
(* A coroutine runs atomically from one await to the next (asyncio), so    *)
(* every action is the code between two awaits.                            *)
(***************************************************************************)
EXTENDS Integers, Sequences, FiniteSets, TLC

\* Backend requests issued in one behaviour.
MaxCalls == 3
\* Subtasks in one delegation map, over all its entries.
MaxSubtasks == 2
\* Changes a caller makes to one list returned to it.
MaxEdits == 1

\* The agent objects: one of each variant, and a second ResearcherAgent.
Agents == {"coordinator", "researcher", "coder", "researcher2"}
\* The agents a caller hands to register_agent.
Registrable == {"researcher", "coder", "researcher2"}
\* The callers (coroutines) that call into the layer.
AllCallers == {"c1", "c2"}
\* Task and message texts the callers use.
Texts == {<<"a">>, <<"b">>}
\* The text the backend generates for the n-th request: the code never looks
\* into a generated text, so the texts are told apart by the request.
Ordinal == <<"1", "2", "3", "4", "5", "6", "7", "8", "9">>
Reply(n) == <<"reply", IF n \in 1..Len(Ordinal) THEN Ordinal[n] ELSE "0">>
\* The context argument of run: None, or a one-entry mapping.
Contexts == {<<>>, <<<<"k", "v">>>>}
\* Agent names a delegation map may use: each is registered in some states
\* and unregistered in others.
DelegationNames == {"Researcher", "Coder"}

Variant(a) ==
  CASE a = "coordinator" -> "Coordinator"
    [] a = "coder" -> "Coder"
    [] OTHER -> "Researcher"

\* AgentConfig as the variant's constructor builds it.
InitialConfig(a) ==
  CASE Variant(a) = "Coordinator" ->
         [name |-> "Coordinator", model |-> "llama3.2", max_tokens |-> 3072]
    [] Variant(a) = "Coder" ->
         [name |-> "Coder", model |-> "qwen2.5:7b", max_tokens |-> 4096]
    [] OTHER ->
         [name |-> "Researcher", model |-> "deepseek-r1:8b", max_tokens |-> 4096]

AgentNames == {InitialConfig(a).name : a \in Agents}

Turn(role, content) == [role |-> role, content |-> content]

VARIABLES
  config,          \* config[a]: the agent's AgentConfig
  history,         \* history[a]: self.conversation_history
  available_agents,\* the coordinator's registry: name -> agent, in key order
  call,            \* call[c]: the coroutine of caller c, and its request in flight
  ncalls,          \* backend requests issued so far
  session,         \* session[a]: the chat calls that completed, one after the
                   \* other and with nothing else touching the history, since
                   \* the history of a was last empty
  registered,      \* the agent last handed to register_agent under each name,
                   \* and the names registered again with another agent
  snapshot,        \* the list get_conversation_history last returned, as the
                   \* caller holds it
  caps,            \* the list get_capabilities last returned, as the caller
                   \* holds it, and the list each agent returned first
  listed,          \* the list list_available_agents last returned, as the
                   \* caller holds it
  audit,           \* audit[a]: the chat calls on a that raised since its history
                   \* was last reset, and whether a chat or a reset on a began
                   \* while a chat on a awaited the backend
  models           \* the models the Ollama server holds, and the ModelManager's
                   \* _available_models

vars == <<config, history, available_agents, call, ncalls, session, registered,
          snapshot, caps, listed, audit, models>>

----------------------------------------------------------------------------
\* Ordered mappings (Python dict): a sequence of [key, val] with distinct keys.

Keys(d) == [i \in 1..Len(d) |-> d[i].key]

HasKey(d, k) == \E i \in 1..Len(d) : d[i].key = k

Lookup(d, k) == d[CHOOSE i \in 1..Len(d) : d[i].key = k].val

\* d = {k: v}: the mapping is replaced by the one entry.
DictSetAlone(d, k, v) == <<[key |-> k, val |-> v]>>

\* d[k] = v moving a key that is there to the end.
DictSetMovesToEnd(d, k, v) ==
  Append(SelectSeq(d, LAMBDA e : e.key # k), [key |-> k, val |-> v])

\* d.setdefault(k, v): an existing key keeps its value.
DictSetDefault(d, k, v) ==
  IF HasKey(d, k) THEN d ELSE Append(d, [key |-> k, val |-> v])

\* d[k] = v: an existing key keeps its place, a new key goes last.
DictSet(d, k, v) ==
  IF HasKey(d, k)
  THEN [i \in 1..Len(d) |-> IF d[i].key = k THEN [key |-> k, val |-> v] ELSE d[i]]
  ELSE Append(d, [key |-> k, val |-> v])

----------------------------------------------------------------------------
\* The transport (OllamaClient) and the request a coroutine awaits.

NoData == [message |-> "absent", has_content |-> FALSE, content |-> <<>>, rest |-> "none"]

NoRequest ==
  [kind |-> "none", agent |-> "none", prompt |-> <<>>, messages |-> <<>>,
   stream |-> FALSE, status |-> "none", text |-> <<>>, data |-> NoData]

\* client.generate(model, prompt, system, ...) for agent a, awaited; stream is
\* not passed and keeps its default, False.
GenerateRequest(a, prompt) ==
  [NoRequest EXCEPT !.kind = "generate", !.agent = a, !.prompt = prompt,
                    !.status = "pending"]

\* client.chat sending the last turn only.
ChatRequestLastTurn(a, messages) ==
  [NoRequest EXCEPT !.kind = "chat", !.agent = a,
                    !.messages = SubSeq(messages, Len(messages), Len(messages)),
                    !.status = "pending"]

\* client.chat(model, messages, ...) for agent a, awaited: the payload is
\* built from the history list as it is at the call.
ChatRequest(a, messages) ==
  [NoRequest EXCEPT !.kind = "chat", !.agent = a, !.messages = messages,
                    !.status = "pending"]

\* What the backend answers to a chat request: the decoded JSON body.
\* message is "absent", a mapping (with or without "content") or a value that
\* is no mapping (a string, null).
WellFormed(n) ==
  {[message |-> "mapping", has_content |-> TRUE, content |-> Reply(n), rest |-> "done"]}

Malformed ==
  {[message |-> "mapping", has_content |-> FALSE, content |-> <<>>, rest |-> "done"],
   [message |-> "absent", has_content |-> FALSE, content |-> <<>>, rest |-> "error"],
   [message |-> "not_mapping", has_content |-> FALSE, content |-> <<>>, rest |-> "done"]}

\* The coroutine of a caller. Beside the locals of the code it records, for
\* the properties: log, the requests it issued, each with the delegation
\* entry it was issued for; failed, the place in log of the request that
\* raised; answers, what the backend answered to the requests of log, in the
\* order it answered; before and registry, the histories and the registry at
\* the call. record is the mapping plan_task returns.
NoRecord == [plan |-> <<>>, task |-> <<>>]

Answer(status, text) == [status |-> status, text |-> text]

Idle ==
  [op |-> "none", pc |-> "idle", agent |-> "none", arg |-> <<>>,
   req |-> NoRequest, log |-> <<>>, answers |-> <<>>, failed |-> 0,
   outcome |-> "none", result |-> <<>>, record |-> NoRecord,
   before |-> <<>>, registry |-> <<>>, overlapped |-> FALSE, run_task |-> <<>>,
   agent_tasks |-> <<>>, phase |-> "none", todo |-> <<>>,
   cur |-> "none", subs |-> <<>>, agent_results |-> <<>>, results |-> <<>>]

\* A call of operation op on agent a by a caller that is idle.
Begin(c, op, a, arg) ==
  [Idle EXCEPT !.op = op, !.agent = a, !.arg = arg,
               !.before = history, !.registry = available_agents]

Logged(req, name) == [req |-> req, name |-> name]

Awaiting(c, op) ==
  /\ call[c].op = op
  /\ call[c].pc = "await"

\* OllamaClient.generate: the POST succeeded, data.get("response", "") is returned.
GenerateResponds(c, response) ==
  /\ call[c].req.kind = "generate"
  /\ call[c].req.status = "pending"
  /\ call' = [call EXCEPT ![c].req.status = "ok", ![c].req.text = response,
                          ![c].answers = Append(@, Answer("ok", response))]
  /\ UNCHANGED <<config, history, available_agents, ncalls, session, registered, snapshot, caps, listed, audit, models>>

\* OllamaClient.generate: the POST or raise_for_status raised; logged, re-raised.
GenerateRaises(c) ==
  /\ call[c].req.kind = "generate"
  /\ call[c].req.status = "pending"
  /\ call' = [call EXCEPT ![c].req.status = "failed",
                          ![c].failed = Len(call[c].log),
                          ![c].answers = Append(@, Answer("failed", <<>>))]
  /\ UNCHANGED <<config, history, available_agents, ncalls, session, registered, snapshot, caps, listed, audit, models>>

\* OllamaClient.chat: the POST succeeded, response.json() is returned.
ChatResponds(c, response_data) ==
  /\ call[c].req.kind = "chat"
  /\ call[c].req.status = "pending"
  /\ call' = [call EXCEPT ![c].req.status = "ok", ![c].req.data = response_data,
                          ![c].answers = Append(@, Answer("ok", <<>>))]
  /\ UNCHANGED <<config, history, available_agents, ncalls, session, registered, snapshot, caps, listed, audit, models>>

\* OllamaClient.chat: the POST or raise_for_status raised; logged, re-raised.
ChatRaises(c) ==
  /\ call[c].req.kind = "chat"
  /\ call[c].req.status = "pending"
  /\ call' = [call EXCEPT ![c].req.status = "failed",
                          ![c].failed = Len(call[c].log),
                          ![c].answers = Append(@, Answer("failed", <<>>))]
  /\ UNCHANGED <<config, history, available_agents, ncalls, session, registered, snapshot, caps, listed, audit, models>>

----------------------------------------------------------------------------
\* BaseAgent

\* BaseAgent._prepare_prompt
RECURSIVE ContextStr(_)
ContextStr(context) ==
  IF context = <<>> THEN <<>>
  ELSE <<context[1][1], ":", context[1][2]>> \o ContextStr(Tail(context))

PreparePrompt(task, context) ==
  IF context # <<>>
  THEN <<"Context:">> \o ContextStr(context) \o <<"Task:">> \o task
  ELSE task

\* str(response_data)
Str(response_data) ==
  <<"{">>
  \o (CASE response_data.message = "absent" -> <<>>
        [] response_data.message = "not_mapping" -> <<"message:", "null">>
        [] response_data.has_content -> <<"message:", "content:">> \o response_data.content
        [] OTHER -> <<"message:", "{}">>)
  \o <<response_data.rest, "}">>

\* chat, the reply taken from the response: raises when "message" is there
\* and is no mapping (it has no .get).
ExtractReply(response_data) ==
  IF response_data.message # "absent"
  THEN IF response_data.message = "mapping"
       THEN [raised |-> FALSE,
             response |-> IF response_data.has_content THEN response_data.content ELSE <<>>]
       ELSE [raised |-> TRUE, response |-> <<>>]
  ELSE [raised |-> FALSE, response |-> Str(response_data)]

\* run saving nothing.
RunSaveNothing(h, task, response) == h

\* run keeping the two turns it saves and dropping the older ones.
RunSaveLastTurnsOnly(h, task, response) ==
  <<Turn("user", task), Turn("assistant", response)>>

\* run saving the task without the response.
RunSaveTaskOnly(h, task, response) == Append(h, Turn("user", task))

\* run, after generate returned: the task and the response are saved.
RunSaveHistory(h, task, response) ==
  Append(Append(h, Turn("user", task)), Turn("assistant", response))

\* run's except branch: logs and re-raises, the history is left as it is.
RunOnError(h) == h

\* chat, before the request: the user turn.
ChatAppendUser(h, message) == Append(h, Turn("user", message))

\* chat appending the assistant turn twice.
ChatAppendAssistantTwice(h, response) ==
  Append(Append(h, Turn("assistant", response)), Turn("assistant", response))

\* chat tagging the reply as a user turn.
ChatAppendReplyAsUser(h, response) == Append(h, Turn("user", response))

\* chat putting the reply after the first user turn that has no reply.
ChatAppendAssistantPaired(h, response) ==
  LET open == {i \in 1..Len(h) :
                 h[i].role = "user" /\ (i = Len(h) \/ h[i + 1].role = "user")}
  IN IF open = {} THEN Append(h, Turn("assistant", response))
     ELSE LET p == CHOOSE i \in open : \A j \in open : i <= j
          IN SubSeq(h, 1, p) \o <<Turn("assistant", response)>>
             \o SubSeq(h, p + 1, Len(h))

\* chat, after the response: the assistant turn.
ChatAppendAssistant(h, response) == Append(h, Turn("assistant", response))

\* chat's except branch answering the user turn with an error turn.
ChatOnErrorAnswers(h) == Append(h, Turn("assistant", <<"error">>))

\* chat's except branch taking the user turn back.
ChatOnErrorRollsBack(h) == IF h = <<>> THEN h ELSE SubSeq(h, 1, Len(h) - 1)

\* chat's except branch: logs and re-raises, the history is left as it is.
ChatOnError(h) == h

\* reset_conversation keeping the first turn.
ResetKeepsFirstTurn(h) == IF h = <<>> THEN h ELSE <<h[1]>>

\* reset_conversation: a new, empty list.
ResetHistory(h) == <<>>

\* Lists of references. A list returned to a caller holds items: ref is the
\* place, in the history list of the agent, of the turn object the item refers
\* to, or 0 for an object that list does not hold, val then being its value.
\* shared: the list returned is the history list of the agent itself.
NoTurn == [role |-> "", content |-> <<>>]

NoSnapshot ==
  [agent |-> "none", shared |-> FALSE, items |-> <<>>, expected |-> <<>>, edits |-> 0]

\* The turns a list returned for agent a holds now.
Deref(l, a) ==
  IF l.shared THEN history[a]
  ELSE [i \in 1..Len(l.items) |->
          IF l.items[i].ref > 0 THEN history[a][l.items[i].ref] ELSE l.items[i].val]

\* get_conversation_history returning the history list itself.
GetConversationHistoryNoCopy(a) == [shared |-> TRUE, items |-> <<>>]

\* get_conversation_history(): self.conversation_history.copy(), a new list
\* of the same turn objects.
GetConversationHistory(a) ==
  [shared |-> FALSE,
   items |-> [i \in 1..Len(history[a]) |-> [ref |-> i, val |-> NoTurn]]]

\* The history of a is no longer the transcript of sequential chats.
Impure == [pure |-> FALSE, chats |-> <<>>]

Fresh == [pure |-> TRUE, chats |-> <<>>]

\* No chat on the agent has raised, none has met another chat or a reset.
NoAudit == [nfailed |-> 0, raced |-> FALSE]

\* A chat on a is between its two appends, awaiting client.chat.
ChatAwaited(a) == \E d \in AllCallers : Awaiting(d, "chat") /\ call[d].agent = a

\* The Ollama server holds no model, the ModelManager has listed none:
\* installed are the names the server holds, listing what list_models last
\* returned, available the ModelManager's _available_models (any() is all
\* that reads it, so its order is left out), at_call what the server held
\* when ensure_model_available was last called.
NoModels == [installed |-> {}, listing |-> {}, available |-> {}, at_call |-> {}]

\* run saving into one list that all the agents share.
RunSavesInSharedList(c) ==
  /\ history' = [b \in Agents |->
                   RunSaveHistory(history[b], call[c].run_task, call[c].req.text)]
  /\ session' = [b \in Agents |-> Impure]

\* run() of the agent the request in flight is for, after generate returned.
RunSaves(c) ==
  /\ history' = [history EXCEPT ![call[c].req.agent] =
                   RunSaveHistory(@, call[c].run_task, call[c].req.text)]
  /\ session' = [session EXCEPT ![call[c].req.agent] = Impure]

\* run() of the agent the request in flight is for, after generate raised.
RunFails(c) ==
  /\ history' = [history EXCEPT ![call[c].req.agent] = RunOnError(@)]
  /\ UNCHANGED session

\* run(task, context) up to its await of client.generate.
RunStart(c, a, task, context) ==
  /\ call[c].pc = "idle"
  /\ ncalls < MaxCalls
  /\ LET req == GenerateRequest(a, PreparePrompt(task, context))
     IN call' = [call EXCEPT ![c] =
                   [Begin(c, "run", a, task) EXCEPT
                      !.pc = "await", !.run_task = task,
                      !.req = req, !.log = <<Logged(req, "")>>]]
  /\ ncalls' = ncalls + 1
  /\ UNCHANGED <<config, history, available_agents, session, registered, snapshot, caps, listed, audit, models>>

\* run, generate returned: history saved, the response returned.
RunReturn(c) ==
  /\ Awaiting(c, "run")
  /\ call[c].req.status = "ok"
  /\ RunSaves(c)
  /\ call' = [call EXCEPT ![c].pc = "done",
                          ![c].outcome = "ok", ![c].result = call[c].req.text]
  /\ UNCHANGED <<config, available_agents, ncalls, registered, snapshot, caps, listed, audit, models>>

\* run issuing the request again after generate raised.
RunRaiseRetries(c) ==
  /\ Awaiting(c, "run")
  /\ call[c].req.status = "failed"
  /\ RunFails(c)
  /\ LET req == [call[c].req EXCEPT !.status = "pending"]
     IN call' = [call EXCEPT ![c].req = req,
                             ![c].log = Append(@, Logged(req, ""))]
  /\ UNCHANGED <<config, available_agents, ncalls, registered, snapshot, caps, listed, audit, models>>

\* run, generate raised: logged and re-raised.
RunRaise(c) ==
  /\ Awaiting(c, "run")
  /\ call[c].req.status = "failed"
  /\ RunFails(c)
  /\ call' = [call EXCEPT ![c].pc = "done",
                          ![c].outcome = "error"]
  /\ UNCHANGED <<config, available_agents, ncalls, registered, snapshot, caps, listed, audit, models>>

\* chat(message) up to its await of client.chat.
ChatStart(c, a, message) ==
  /\ call[c].pc = "idle"
  /\ ncalls < MaxCalls
  /\ history' = [history EXCEPT ![a] = ChatAppendUser(@, message)]
  /\ LET req == ChatRequest(a, history'[a])
         other == \E d \in AllCallers \ {c} : Awaiting(d, "chat") /\ call[d].agent = a
     IN call' = [d \in AllCallers |->
                   IF d = c
                   THEN [Begin(c, "chat", a, message) EXCEPT
                           !.pc = "await", !.req = req,
                           !.log = <<Logged(req, "")>>, !.overlapped = other]
                   ELSE IF Awaiting(d, "chat") /\ call[d].agent = a
                        THEN [call[d] EXCEPT !.overlapped = TRUE]
                        ELSE call[d]]
  /\ audit' = [audit EXCEPT ![a].raced = @ \/ ChatAwaited(a)]
  /\ ncalls' = ncalls + 1
  /\ UNCHANGED <<config, available_agents, session, registered, snapshot, caps, listed, models>>

\* chat, client.chat returned: the reply is extracted, appended and returned;
\* an exception of the extraction is logged and re-raised like the client's.
ChatReturn(c) ==
  /\ Awaiting(c, "chat")
  /\ call[c].req.status = "ok"
  /\ LET got == ExtractReply(call[c].req.data)
         a == call[c].agent
     IN IF got.raised
        THEN /\ history' = [history EXCEPT ![a] = ChatOnError(@)]
             /\ call' = [call EXCEPT ![c].pc = "done",
                                     ![c].outcome = "error"]
             /\ session' = [session EXCEPT ![a] = Impure]
             /\ audit' = [audit EXCEPT ![a].nfailed = @ + 1]
        ELSE /\ history' = [history EXCEPT ![a] = ChatAppendAssistant(@, got.response)]
             /\ UNCHANGED audit
             /\ call' = [call EXCEPT ![c].pc = "done",
                                     ![c].outcome = "ok", ![c].result = got.response]
             /\ session' = [session EXCEPT ![a] =
                              IF @.pure /\ ~call[c].overlapped
                              THEN [@ EXCEPT !.chats =
                                      Append(@, [m |-> call[c].arg, r |-> got.response])]
                              ELSE Impure]
  /\ UNCHANGED <<config, available_agents, ncalls, registered, snapshot, caps, listed, models>>

\* chat, client.chat raised: logged and re-raised.
ChatRaise(c) ==
  /\ Awaiting(c, "chat")
  /\ call[c].req.status = "failed"
  /\ history' = [history EXCEPT ![call[c].agent] = ChatOnError(@)]
  /\ call' = [call EXCEPT ![c].pc = "done",
                          ![c].outcome = "error"]
  /\ session' = [session EXCEPT ![call[c].agent] = Impure]
  /\ audit' = [audit EXCEPT ![call[c].agent].nfailed = @ + 1]
  /\ UNCHANGED <<config, available_agents, ncalls, registered, snapshot, caps, listed, models>>

\* The keys of the server's agents dict once startup_event has run.
ServerAgents == {"researcher", "coder", "coordinator"}

\* The agent ids the clients of the server send.
AgentIds == {"researcher", "Researcher", "CODER", "coordinator", "ghost", "Ghost"}

\* str.lower()
Lower(agent_id) ==
  CASE agent_id = "Researcher" -> "researcher"
    [] agent_id = "CODER" -> "coder"
    [] agent_id = "Ghost" -> "ghost"
    [] OTHER -> agent_id

\* POST /api/chat handled by c, up to its first await: the id is lower-cased
\* and looked up, HTTPException(404) is raised before the try block when it
\* is unknown, else agents[agent_id].chat(message) is awaited, with nothing
\* that keeps two handlers from chatting with one agent at a time.
ChatWithAgent(c, agent_id, message) ==
  IF Lower(agent_id) \in ServerAgents
  THEN ChatStart(c, Lower(agent_id), message)
  ELSE /\ call[c].pc = "idle"
       /\ call' = [call EXCEPT ![c] =
                     [Begin(c, "chat_with_agent", Lower(agent_id), message) EXCEPT
                        !.pc = "done", !.outcome = "error"]]
       /\ UNCHANGED <<config, history, available_agents, ncalls, session, registered, snapshot, caps, listed, audit, models>>

\* The handler catching every exception of its body, the 404 included.
ChatEndpointStatusCatchesAll(k) == IF k.outcome = "ok" THEN 200 ELSE 500

\* POST /api/chat, the status of the response to a handler that completed as
\* k: the 404 raised before the try block, 200 when chat returned, the 500
\* of the except branch when chat raised.
ChatEndpointStatus(k) ==
  IF k.op = "chat_with_agent" THEN 404
  ELSE IF k.outcome = "ok" THEN 200 ELSE 500

\* reset_conversation(), called by c.
ResetConversation(c, a) ==
  /\ call[c].pc = "idle"
  /\ history' = [history EXCEPT ![a] = ResetHistory(@)]
  /\ session' = [session EXCEPT ![a] = Fresh]
  /\ call' = [d \in AllCallers |->
                IF d = c
                THEN [Begin(c, "reset", a, <<>>) EXCEPT !.pc = "done", !.outcome = "ok"]
                ELSE IF Awaiting(d, "chat") /\ call[d].agent = a
                     THEN [call[d] EXCEPT !.overlapped = TRUE]
                     ELSE call[d]]
  /\ snapshot' =
       IF snapshot.agent = a
       THEN [snapshot EXCEPT
               !.shared = FALSE,
               !.items = [i \in 1..Len(Deref(snapshot, a)) |->
                            [ref |-> 0, val |-> Deref(snapshot, a)[i]]]]
       ELSE snapshot
  /\ audit' = [audit EXCEPT ![a] = [nfailed |-> 0, raced |-> ChatAwaited(a)]]
  /\ UNCHANGED <<config, available_agents, ncalls, registered, caps, listed, models>>

\* get_conversation_history(), called by c, which keeps the list returned.
GetConversationHistoryCall(c, a) ==
  /\ call[c].pc = "idle"
  /\ LET l == GetConversationHistory(a)
     IN snapshot' = [agent |-> a, shared |-> l.shared, items |-> l.items,
                     expected |-> Deref(l, a), edits |-> 0]
  /\ call' = [call EXCEPT ![c] =
                [Begin(c, "get_history", a, <<>>) EXCEPT !.pc = "done", !.outcome = "ok"]]
  /\ UNCHANGED <<config, history, available_agents, ncalls, session, registered, caps, listed, audit, models>>

\* The caller's own statements on a list l it holds, x being an object of
\* its own: l.append(x), l.pop(), l[0] = x, l.reverse().
ListEdits == {"append", "pop", "replace", "reverse"}

CanEdit(kind, l) == kind \in {"append", "reverse"} \/ l # <<>>

EditList(kind, l, x) ==
  CASE kind = "append" -> Append(l, x)
    [] kind = "pop" -> SubSeq(l, 1, Len(l) - 1)
    [] kind = "replace" -> [l EXCEPT ![1] = x]
    [] OTHER -> [i \in 1..Len(l) |-> l[Len(l) + 1 - i]]

CallerTurn == [role |-> "user", content |-> <<"x">>]

\* The caller changes the list get_conversation_history returned to it.
SnapshotEdit(c, kind) ==
  /\ call[c].pc = "idle"
  /\ snapshot.agent # "none"
  /\ snapshot.edits < MaxEdits
  /\ CanEdit(kind, Deref(snapshot, snapshot.agent))
  /\ LET a == snapshot.agent
         expected == EditList(kind, Deref(snapshot, a), CallerTurn)
     IN IF snapshot.shared
        THEN /\ history' = [history EXCEPT ![a] = EditList(kind, @, CallerTurn)]
             /\ session' = [session EXCEPT ![a] = Impure]
             /\ snapshot' = [snapshot EXCEPT !.expected = expected, !.edits = @ + 1]
        ELSE /\ snapshot' = [snapshot EXCEPT
                               !.items = EditList(kind, @, [ref |-> 0, val |-> CallerTurn]),
                               !.expected = expected, !.edits = @ + 1]
             /\ UNCHANGED <<history, session>>
  /\ call' = [call EXCEPT ![c] =
                [Begin(c, "edit_list", snapshot.agent, <<>>) EXCEPT
                   !.pc = "done", !.outcome = "ok"]]
  /\ UNCHANGED <<config, available_agents, ncalls, registered, caps, listed, audit, models>>

\* The keys of a turn, and the value the caller stores under each.
TurnKeys == {"role", "content"}

CallerValue(key) == IF key = "role" THEN "system" ELSE <<"x">>

\* The caller's statement l[i][key] = x on the list l that
\* get_conversation_history returned to it: l[i] is the object the list holds
\* at i, which is the agent's own turn when the copy took it from the history.
SnapshotTurnEdit(c, i, key) ==
  /\ call[c].pc = "idle"
  /\ snapshot.agent # "none"
  /\ snapshot.edits < MaxEdits
  /\ i \in 1..Len(Deref(snapshot, snapshot.agent))
  /\ LET a == snapshot.agent
         turn == [Deref(snapshot, a)[i] EXCEPT ![key] = CallerValue(key)]
         ref == IF snapshot.shared THEN i ELSE snapshot.items[i].ref
     IN /\ IF ref > 0
           THEN /\ history' = [history EXCEPT ![a][ref] = turn]
                /\ session' = [session EXCEPT ![a] = Impure]
                /\ snapshot' = [snapshot EXCEPT !.expected[i] = turn, !.edits = @ + 1]
           ELSE /\ snapshot' = [snapshot EXCEPT !.items[i].val = turn,
                                                !.expected[i] = turn, !.edits = @ + 1]
                /\ UNCHANGED <<history, session>>
        /\ call' = [call EXCEPT ![c] =
                      [Begin(c, "edit_turn", a, <<>>) EXCEPT
                         !.pc = "done", !.outcome = "ok"]]
  /\ UNCHANGED <<config, available_agents, ncalls, registered, caps, listed, audit, models>>

\* The caller takes the value returned, or the error raised, by its call.
Return(c) ==
  /\ call[c].pc = "done"
  /\ call' = [call EXCEPT ![c] = Idle]
  /\ UNCHANGED <<config, history, available_agents, ncalls, session, registered, snapshot, caps, listed, audit, models>>

----------------------------------------------------------------------------
\* The agent variants

ResearcherCapabilities ==
  <<"Investigacion profunda", "Analisis de documentos",
    "Razonamiento chain-of-thought", "Comparacion y contraste",
    "Sintesis de informacion", "Identificacion de patrones">>

CoderCapabilities ==
  <<"Generacion de codigo", "Revision de codigo", "Explicacion de codigo",
    "Debugging", "Refactorizacion", "Generacion de tests",
    "Multiples lenguajes de programacion">>

CoordinatorCapabilities ==
  <<"Planificacion de tareas complejas", "Delegacion a agentes especializados",
    "Sintesis de resultados", "Coordinacion multi-agente",
    "Optimizacion de flujos de trabajo">>

\* stale: the caller had changed the list the same agent returned just before.
NoCaps == [agent |-> "none", items |-> <<>>, edits |-> 0, stale |-> FALSE,
           first |-> [a \in Agents |-> <<>>]]

\* get_capabilities handing out one list per variant, the last one returned.
GetCapabilitiesCached(a) ==
  IF caps.agent # "none" /\ Variant(caps.agent) = Variant(a)
  THEN caps.items
  ELSE CASE Variant(a) = "Researcher" -> ResearcherCapabilities
         [] Variant(a) = "Coder" -> CoderCapabilities
         [] OTHER -> CoordinatorCapabilities

\* get_capabilities() of agent a: a new list built from the literal.
GetCapabilities(a) ==
  CASE Variant(a) = "Researcher" -> ResearcherCapabilities
    [] Variant(a) = "Coder" -> CoderCapabilities
    [] OTHER -> CoordinatorCapabilities

\* get_capabilities(), called by c, which keeps the list returned.
GetCapabilitiesCall(c, a) ==
  /\ call[c].pc = "idle"
  /\ LET l == GetCapabilities(a)
     IN /\ caps' = [agent |-> a, items |-> l, edits |-> 0,
                    stale |-> (caps.agent = a /\ caps.edits > 0),
                    first |-> IF caps.first[a] = <<>>
                              THEN [caps.first EXCEPT ![a] = l]
                              ELSE caps.first]
        /\ call' = [call EXCEPT ![c] =
                      [Begin(c, "get_capabilities", a, <<>>) EXCEPT
                         !.pc = "done", !.outcome = "ok", !.result = l]]
  /\ UNCHANGED <<config, history, available_agents, ncalls, session, registered,
                 snapshot, listed, audit, models>>

\* The caller changes the list get_capabilities returned to it.
CapabilitiesEdit(c, kind) ==
  /\ call[c].pc = "idle"
  /\ caps.agent # "none"
  /\ caps.edits < MaxEdits
  /\ CanEdit(kind, caps.items)
  /\ caps' = [caps EXCEPT !.items = EditList(kind, @, "x"), !.edits = @ + 1]
  /\ call' = [call EXCEPT ![c] =
                [Begin(c, "edit_list", caps.agent, <<>>) EXCEPT
                   !.pc = "done", !.outcome = "ok"]]
  /\ UNCHANGED <<config, history, available_agents, ncalls, session, registered,
                 snapshot, listed, audit, models>>

----------------------------------------------------------------------------
\* CoordinatorAgent

\* order: the names in the order of their first registration.
NoneRegistered ==
  [latest |-> [n \in AgentNames |-> "none"], replaced |-> {}, order |-> <<>>]

\* register_agent keying the registry by the model of the agent.
RegisterAgentByModel(c, a) ==
  /\ call[c].pc = "idle"
  /\ available_agents' = DictSet(available_agents, config[a].model, a)
  /\ call' = [call EXCEPT ![c] =
                [Begin(c, "register", a, <<>>) EXCEPT !.pc = "done", !.outcome = "ok"]]
  /\ UNCHANGED <<config, history, ncalls, session, registered, snapshot, caps, listed, audit, models>>

\* register_agent(agent), called by c:
\* available_agents[agent.config.name] = agent
RegisterAgent(c, a) ==
  /\ call[c].pc = "idle"
  /\ available_agents' = DictSet(available_agents, config[a].name, a)
  /\ call' = [call EXCEPT ![c] =
                [Begin(c, "register", a, <<>>) EXCEPT !.pc = "done", !.outcome = "ok"]]
  /\ registered' =
       [latest |-> [registered.latest EXCEPT ![config[a].name] = a],
        replaced |-> registered.replaced \cup
                       {n \in {config[a].name} : registered.latest[n] \notin {"none", a}},
        order |-> IF registered.latest[config[a].name] = "none"
                  THEN Append(registered.order, config[a].name)
                  ELSE registered.order]
  /\ UNCHANGED <<config, history, ncalls, session, snapshot, caps, listed, audit, models>>

\* list_available_agents(): list(self.available_agents.keys())
ListAvailableAgents == Keys(available_agents)

NoList == [held |-> FALSE, items |-> <<>>, expected |-> <<>>, edits |-> 0]

\* list_available_agents(), called by c, which keeps the list returned.
ListAvailableAgentsCall(c) ==
  /\ call[c].pc = "idle"
  /\ LET l == ListAvailableAgents
     IN /\ listed' = [held |-> TRUE, items |-> l, expected |-> l, edits |-> 0]
        /\ call' = [call EXCEPT ![c] =
                      [Begin(c, "list", "coordinator", <<>>) EXCEPT
                         !.pc = "done", !.outcome = "ok", !.result = l]]
  /\ UNCHANGED <<config, history, available_agents, ncalls, session, registered,
                 snapshot, caps, audit, models>>

\* The caller changes the list list_available_agents returned to it.
ListedEdit(c, kind) ==
  /\ call[c].pc = "idle"
  /\ listed.held
  /\ listed.edits < MaxEdits
  /\ CanEdit(kind, listed.items)
  /\ listed' = [listed EXCEPT !.items = EditList(kind, @, "x"),
                              !.expected = EditList(kind, @, "x"), !.edits = @ + 1]
  /\ call' = [call EXCEPT ![c] =
                [Begin(c, "edit_list", "coordinator", <<>>) EXCEPT
                   !.pc = "done", !.outcome = "ok"]]
  /\ UNCHANGED <<config, history, available_agents, ncalls, session, registered,
                 snapshot, caps, audit, models>>

\* str.upper() of an agent name
Upper(name) ==
  CASE name = "Researcher" -> "RESEARCHER"
    [] name = "Coder" -> "CODER"
    [] name = "Coordinator" -> "COORDINATOR"
    [] OTHER -> name

RECURSIVE Join(_, _)
\* sep.join(items), the items being tokens
Join(items, sep) ==
  IF items = <<>> THEN <<>>
  ELSE IF Len(items) = 1 THEN items
  ELSE <<items[1], sep>> \o Join(Tail(items), sep)

RECURSIVE FormatCapabilities(_)
\* _format_capabilities: "- {agent}: {caps}" per agent
FormatCapabilities(capabilities) ==
  IF capabilities = <<>> THEN <<>>
  ELSE <<"-", capabilities[1].key, ":">> \o Join(capabilities[1].val, ",")
       \o FormatCapabilities(Tail(capabilities))

RECURSIVE FormatSubtasks(_, _)
\* _format_results, inner loop: "Subtarea {i}:" and the result, i from 1
FormatSubtasks(agent_results, i) ==
  IF agent_results = <<>> THEN <<>>
  ELSE <<"Subtarea", Ordinal[i], ":">> \o agent_results[1]
       \o FormatSubtasks(Tail(agent_results), i + 1)

\* _format_results, one agent: its header and its subtasks
FormatAgentResults(agent, agent_results) ==
  <<"===", Upper(agent), "===">> \o FormatSubtasks(agent_results, 1)

RECURSIVE FormatResults(_)
\* _format_results
FormatResults(results) ==
  IF results = <<>> THEN <<>>
  ELSE FormatAgentResults(results[1].key, results[1].val)
       \o FormatResults(Tail(results))

\* plan_task: the capabilities of every registered agent, in registry order
GatherCapabilities(registry) ==
  [i \in 1..Len(registry) |->
     [key |-> registry[i].key, val |-> GetCapabilities(registry[i].val)]]

\* plan_task: planning_task
PlanningTask(task, capabilities) ==
  <<"Analiza la siguiente tarea compleja", "Tarea:">> \o task
  \o <<"Agentes disponibles y sus capacidades:">>
  \o FormatCapabilities(capabilities)
  \o <<"Genera un plan estructurado">>

\* delegate_and_synthesize: synthesis_task
SynthesisTask(task, results) ==
  <<"Sintetiza los siguientes resultados", "Tarea Original:">> \o task
  \o <<"Resultados por agente:">>
  \o FormatResults(results)
  \o <<"Genera un resultado final">>

\* plan_task(task) up to the await of self.run(planning_task).
PlanStart(c, task) ==
  /\ call[c].pc = "idle"
  /\ ncalls < MaxCalls
  /\ LET planning_task == PlanningTask(task, GatherCapabilities(available_agents))
         req == GenerateRequest("coordinator", PreparePrompt(planning_task, <<>>))
     IN call' = [call EXCEPT ![c] =
                   [Begin(c, "plan", "coordinator", task) EXCEPT
                      !.pc = "await", !.run_task = planning_task,
                      !.req = req, !.log = <<Logged(req, "")>>]]
  /\ ncalls' = ncalls + 1
  /\ UNCHANGED <<config, history, available_agents, session, registered, snapshot, caps, listed, audit, models>>

\* plan_task returning the prompt it built as the task.
PlanReturnsPrompt(c) ==
  /\ Awaiting(c, "plan")
  /\ call[c].req.status = "ok"
  /\ RunSaves(c)
  /\ call' = [call EXCEPT ![c].pc = "done",
                          ![c].outcome = "ok", ![c].result = call[c].req.text,
                          ![c].record = [plan |-> call[c].req.text,
                                         task |-> call[c].run_task]]
  /\ UNCHANGED <<config, available_agents, ncalls, registered, snapshot, caps, listed, audit, models>>

\* plan_task, self.run returned: {"plan": result, "task": task}
PlanReturn(c) ==
  /\ Awaiting(c, "plan")
  /\ call[c].req.status = "ok"
  /\ RunSaves(c)
  /\ call' = [call EXCEPT ![c].pc = "done",
                          ![c].outcome = "ok", ![c].result = call[c].req.text,
                          ![c].record = [plan |-> call[c].req.text,
                                         task |-> call[c].arg]]
  /\ UNCHANGED <<config, available_agents, ncalls, registered, snapshot, caps, listed, audit, models>>

\* plan_task, self.run raised.
PlanRaise(c) ==
  /\ Awaiting(c, "plan")
  /\ call[c].req.status = "failed"
  /\ RunFails(c)
  /\ call' = [call EXCEPT ![c].pc = "done",
                          ![c].outcome = "error"]
  /\ UNCHANGED <<config, available_agents, ncalls, registered, snapshot, caps, listed, audit, models>>

RECURSIVE NextEntrySkipsEmpty(_, _, _)
\* The loop storing a result list only when it holds a result.
NextEntrySkipsEmpty(todo, results, registry) ==
  IF todo = <<>>
  THEN [run |-> FALSE, todo |-> <<>>, results |-> results]
  ELSE IF ~HasKey(registry, todo[1].key) \/ todo[1].val = <<>>
  THEN NextEntrySkipsEmpty(Tail(todo), results, registry)
  ELSE [run |-> TRUE, todo |-> todo, results |-> results]

RECURSIVE NextEntryBreaks(_, _, _)
\* The loop leaving at an unregistered name (break for continue).
NextEntryBreaks(todo, results, registry) ==
  IF todo = <<>>
  THEN [run |-> FALSE, todo |-> <<>>, results |-> results]
  ELSE IF ~HasKey(registry, todo[1].key)
  THEN [run |-> FALSE, todo |-> <<>>, results |-> results]
  ELSE IF todo[1].val = <<>>
  THEN NextEntryBreaks(Tail(todo), DictSet(results, todo[1].key, <<>>), registry)
  ELSE [run |-> TRUE, todo |-> todo, results |-> results]

RECURSIVE NextEntry(_, _, _)
\* delegate_and_synthesize, the loop over agent_tasks.items() from the entry
\* todo[1] on, up to its first await (a registered agent with a subtask) or
\* its end: an unregistered name is skipped, a registered name without
\* subtasks gets its empty result list.
NextEntry(todo, results, registry) ==
  IF todo = <<>>
  THEN [run |-> FALSE, todo |-> <<>>, results |-> results]
  ELSE IF ~HasKey(registry, todo[1].key)
  THEN NextEntry(Tail(todo), results, registry)
  ELSE IF todo[1].val = <<>>
  THEN NextEntry(Tail(todo), DictSet(results, todo[1].key, <<>>), registry)
  ELSE [run |-> TRUE, todo |-> todo, results |-> results]

\* delegate_and_synthesize from the entry todo[1] on, up to its next await:
\* agent.run(subtask) for the first subtask of the next registered agent, or
\* self.run(synthesis_task) when no entry is left. k is the coroutine so far.
Proceed(k, todo, results) ==
  LET nx == NextEntry(todo, results, available_agents)
  IN IF nx.run
     THEN LET agent == Lookup(available_agents, nx.todo[1].key)
              subtask == nx.todo[1].val[1]
              req == GenerateRequest(agent, PreparePrompt(subtask, <<>>))
          IN [k EXCEPT !.phase = "subtask", !.cur = nx.todo[1].key,
                       !.run_task = subtask, !.subs = Tail(nx.todo[1].val),
                       !.todo = Tail(nx.todo), !.agent_results = <<>>,
                       !.results = nx.results, !.req = req,
                       !.log = Append(k.log, Logged(req, nx.todo[1].key))]
     ELSE LET synthesis_task == SynthesisTask(k.arg, nx.results)
              req == GenerateRequest("coordinator", PreparePrompt(synthesis_task, <<>>))
          IN [k EXCEPT !.phase = "synth", !.cur = "none",
                       !.run_task = synthesis_task, !.subs = <<>>,
                       !.todo = <<>>, !.agent_results = <<>>,
                       !.results = nx.results, !.req = req,
                       !.log = Append(k.log, Logged(req, ""))]

RECURSIVE TotalSubtasks(_)
TotalSubtasks(agent_tasks) ==
  IF agent_tasks = <<>> THEN 0
  ELSE Len(agent_tasks[1].val) + TotalSubtasks(Tail(agent_tasks))

\* delegate_and_synthesize going through agent_tasks from its last entry.
DelegateStartsFromLast(c, task, agent_tasks) ==
  /\ call[c].pc = "idle"
  /\ ncalls + TotalSubtasks(agent_tasks) + 1 <= MaxCalls
  /\ call' = [call EXCEPT ![c] =
                Proceed([Begin(c, "delegate", "coordinator", task) EXCEPT
                           !.pc = "await", !.agent_tasks = agent_tasks],
                        [i \in 1..Len(agent_tasks) |->
                           agent_tasks[Len(agent_tasks) + 1 - i]], <<>>)]
  /\ ncalls' = ncalls + 1
  /\ UNCHANGED <<config, history, available_agents, session, registered, snapshot, caps, listed, audit, models>>

\* delegate_and_synthesize(task, agent_tasks) up to its first await.
DelegateStart(c, task, agent_tasks) ==
  /\ call[c].pc = "idle"
  /\ ncalls + TotalSubtasks(agent_tasks) + 1 <= MaxCalls
  /\ call' = [call EXCEPT ![c] =
                Proceed([Begin(c, "delegate", "coordinator", task) EXCEPT
                           !.pc = "await", !.agent_tasks = agent_tasks],
                        agent_tasks, <<>>)]
  /\ ncalls' = ncalls + 1
  /\ UNCHANGED <<config, history, available_agents, session, registered, snapshot, caps, listed, audit, models>>

\* delegate_and_synthesize after a subtask of the current agent, its results
\* so far being agent_results: the agent's next subtask, or the loop goes on.
DelegateGoesOn(c, agent_results) ==
  /\ LET k == call[c]
     IN call' = [call EXCEPT ![c] =
          IF k.subs # <<>>
          THEN LET req == GenerateRequest(k.req.agent, PreparePrompt(k.subs[1], <<>>))
               IN [k EXCEPT !.run_task = k.subs[1], !.subs = Tail(k.subs),
                            !.agent_results = agent_results, !.req = req,
                            !.log = Append(k.log, Logged(req, k.cur))]
          ELSE Proceed(k, k.todo, DictSet(k.results, k.cur, agent_results))]
  /\ ncalls' = ncalls + 1

\* The loop going to the next entry after an agent's first subtask.
DelegateSubtaskReturnFirstOnly(c) ==
  /\ Awaiting(c, "delegate")
  /\ call[c].phase = "subtask"
  /\ call[c].req.status = "ok"
  /\ RunSaves(c)
  /\ LET k == call[c]
     IN call' = [call EXCEPT ![c] =
          Proceed(k, k.todo,
                  DictSet(k.results, k.cur, Append(k.agent_results, k.req.text)))]
  /\ ncalls' = ncalls + 1
  /\ UNCHANGED <<config, available_agents, registered, snapshot, caps, listed, audit, models>>

\* The result of a subtask put before the agent's earlier results.
DelegateSubtaskReturnPrepends(c) ==
  /\ Awaiting(c, "delegate")
  /\ call[c].phase = "subtask"
  /\ call[c].req.status = "ok"
  /\ RunSaves(c)
  /\ DelegateGoesOn(c, <<call[c].req.text>> \o call[c].agent_results)
  /\ UNCHANGED <<config, available_agents, registered, snapshot, caps, listed, audit, models>>

\* delegate_and_synthesize, agent.run(subtask) returned: the result is
\* appended; the next subtask, the next entry or the synthesis follows.
DelegateSubtaskReturn(c) ==
  /\ Awaiting(c, "delegate")
  /\ call[c].phase = "subtask"
  /\ call[c].req.status = "ok"
  /\ RunSaves(c)
  /\ DelegateGoesOn(c, Append(call[c].agent_results, call[c].req.text))
  /\ UNCHANGED <<config, available_agents, registered, snapshot, caps, listed, audit, models>>

\* The loop swallowing the error of a subtask and waiting on.
DelegateSubtaskRaiseHangs(c) ==
  /\ Awaiting(c, "delegate")
  /\ call[c].phase = "subtask"
  /\ call[c].req.status = "failed"
  /\ UNCHANGED vars

\* The loop collecting the error of a subtask and going on.
DelegateSubtaskRaiseGoesOn(c) ==
  /\ Awaiting(c, "delegate")
  /\ call[c].phase = "subtask"
  /\ call[c].req.status = "failed"
  /\ RunFails(c)
  /\ DelegateGoesOn(c, Append(call[c].agent_results, <<"error">>))
  /\ UNCHANGED <<config, available_agents, registered, snapshot, caps, listed, audit, models>>

\* delegate_and_synthesize, agent.run(subtask) raised: nothing catches it.
DelegateSubtaskRaise(c) ==
  /\ Awaiting(c, "delegate")
  /\ call[c].phase = "subtask"
  /\ call[c].req.status = "failed"
  /\ RunFails(c)
  /\ call' = [call EXCEPT ![c].pc = "done",
                          ![c].outcome = "error"]
  /\ UNCHANGED <<config, available_agents, ncalls, registered, snapshot, caps, listed, audit, models>>

\* delegate_and_synthesize, self.run(synthesis_task) returned: final_result.
DelegateSynthReturn(c) ==
  /\ Awaiting(c, "delegate")
  /\ call[c].phase = "synth"
  /\ call[c].req.status = "ok"
  /\ RunSaves(c)
  /\ call' = [call EXCEPT ![c].pc = "done",
                          ![c].outcome = "ok", ![c].result = call[c].req.text]
  /\ UNCHANGED <<config, available_agents, ncalls, registered, snapshot, caps, listed, audit, models>>

\* delegate_and_synthesize, self.run(synthesis_task) raised.
DelegateSynthRaise(c) ==
  /\ Awaiting(c, "delegate")
  /\ call[c].phase = "synth"
  /\ call[c].req.status = "failed"
  /\ RunFails(c)
  /\ call' = [call EXCEPT ![c].pc = "done",
                          ![c].outcome = "error"]
  /\ UNCHANGED <<config, available_agents, ncalls, registered, snapshot, caps, listed, audit, models>>

----------------------------------------------------------------------------
\* The delegation maps the callers pass: entries with distinct names, at
\* most MaxSubtasks subtasks in all.

SubtaskLists == UNION {[1..n -> Texts] : n \in 0..MaxSubtasks}

DelegationMaps ==
  {m \in UNION {[1..n -> [key : DelegationNames, val : SubtaskLists]] :
                  n \in 0..Cardinality(DelegationNames)} :
     /\ \A i, j \in 1..Len(m) : m[i].key = m[j].key => i = j
     /\ TotalSubtasks(m) <= MaxSubtasks}

\* The delegation maps of LayerSpec.
LayerMaps ==
  {<<>>, <<[key |-> "Researcher", val |-> <<<<"b">>>>]>>,
         <<[key |-> "Coordinator", val |-> <<<<"b">>>>]>>}

----------------------------------------------------------------------------
\* ModelManager. A model name is the sequence of the pieces that matter to
\* split(":") and to the substring test: "deepseek-r1:8b" is
\* <<"deepseek-r1", ":", "8b">>, "mistral-nemo" is <<"mistral", "-nemo">>.

\* MODELS_CATALOG, the key and the ollama_name of three of its entries.
ModelsCatalog ==
  <<[key |-> "mistral", val |-> <<"mistral">>],
    [key |-> "deepseek-r1", val |-> <<"deepseek-r1", ":", "8b">>],
    [key |-> "qwen2.5", val |-> <<"qwen2.5", ":", "7b">>]>>

\* The keys the callers pass: those of the catalog and one it does not have.
ModelKeys == {"mistral", "deepseek-r1", "qwen2.5", "gpt-4"}

\* The name under which the server holds the model pulled as name: a name
\* without a tag gets the tag "latest".
Tagged(name) ==
  IF \E i \in 1..Len(name) : name[i] = ":" THEN name
  ELSE name \o <<":", "latest">>

\* The models the server may hold: those of the catalog and another one.
ServerModels ==
  {Tagged(ModelsCatalog[i].val) : i \in 1..Len(ModelsCatalog)}
  \cup {<<"mistral", "-nemo", ":", "latest">>}

\* name.split(":")[0]
SplitFirst(name) ==
  LET cut == {i \in 1..Len(name) : name[i] = ":"}
  IN IF cut = {} THEN name
     ELSE SubSeq(name, 1, (CHOOSE i \in cut : \A j \in cut : i <= j) - 1)

\* x in m, of two strings
Contains(m, x) ==
  \E i \in 0..(Len(m) - Len(x)) : SubSeq(m, i + 1, i + Len(x)) = x

\* refresh_available_models, after list_models returned:
\* [m.get("name", "").split(":")[0] for m in models]
RefreshAvailableModels(listing) == {SplitFirst(name) : name \in listing}

\* any(model_info.ollama_name in m for m in self._available_models)
AlreadyAvailable(ollama_name, available) ==
  \E m \in available : Contains(m, ollama_name)

\* client.list_models(): GET /api/tags
TagsRequest == [NoRequest EXCEPT !.kind = "tags", !.status = "pending"]

\* client.pull_model(model): POST /api/pull
PullRequest(model) ==
  [NoRequest EXCEPT !.kind = "pull", !.prompt = model, !.status = "pending"]

\* ensure_model_available(model_key) up to its first await: False for a key
\* the catalog does not have, else refresh_available_models is awaited.
EnsureModelAvailable(c, model_key) ==
  /\ call[c].pc = "idle"
  /\ IF ~HasKey(ModelsCatalog, model_key)
     THEN /\ call' = [call EXCEPT ![c] =
                        [Begin(c, "ensure", "none", <<model_key>>) EXCEPT
                           !.pc = "done", !.outcome = "ok", !.result = <<"False">>]]
          /\ UNCHANGED <<ncalls, models>>
     ELSE /\ ncalls + 3 <= MaxCalls
          /\ call' = [call EXCEPT ![c] =
                        [Begin(c, "ensure", "none", <<model_key>>) EXCEPT
                           !.pc = "await", !.phase = "refresh", !.req = TagsRequest,
                           !.log = <<Logged(TagsRequest, "")>>]]
          /\ ncalls' = ncalls + 1
          /\ models' = [models EXCEPT !.at_call = models.installed]
  /\ UNCHANGED <<config, history, available_agents, session, registered, snapshot, caps, listed, audit>>

\* OllamaClient.list_models: the GET succeeded, data.get("models", []).
TagsResponds(c) ==
  /\ call[c].req.kind = "tags"
  /\ call[c].req.status = "pending"
  /\ call' = [call EXCEPT ![c].req.status = "ok",
                          ![c].answers = Append(@, Answer("ok", <<>>))]
  /\ models' = [models EXCEPT !.listing = models.installed]
  /\ UNCHANGED <<config, history, available_agents, ncalls, session, registered, snapshot, caps, listed, audit>>

\* OllamaClient.list_models: the GET raised; logged, [] is returned.
TagsRaises(c) ==
  /\ call[c].req.kind = "tags"
  /\ call[c].req.status = "pending"
  /\ call' = [call EXCEPT ![c].req.status = "failed",
                          ![c].answers = Append(@, Answer("failed", <<>>))]
  /\ models' = [models EXCEPT !.listing = {}]
  /\ UNCHANGED <<config, history, available_agents, ncalls, session, registered, snapshot, caps, listed, audit>>

\* ensure_model_available, refresh_available_models returned: after the
\* first refresh True when the name is found, else pull_model is awaited;
\* after the refresh that follows a pull, success is returned.
EnsureRefreshed(c) ==
  /\ Awaiting(c, "ensure")
  /\ call[c].req.kind = "tags"
  /\ call[c].req.status # "pending"
  /\ LET available == RefreshAvailableModels(models.listing)
         ollama_name == Lookup(ModelsCatalog, call[c].arg[1])
         req == PullRequest(ollama_name)
     IN /\ models' = [models EXCEPT !.available = available]
        /\ IF call[c].phase = "refresh" /\ ~AlreadyAvailable(ollama_name, available)
           THEN /\ call' = [call EXCEPT ![c].phase = "pull", ![c].req = req,
                                        ![c].log = Append(@, Logged(req, ""))]
                /\ ncalls' = ncalls + 1
           ELSE /\ call' = [call EXCEPT ![c].pc = "done", ![c].outcome = "ok",
                                        ![c].result = <<"True">>]
                /\ UNCHANGED ncalls
  /\ UNCHANGED <<config, history, available_agents, session, registered, snapshot, caps, listed, audit>>

\* OllamaClient.pull_model: the stream ended, the server holds the model.
PullResponds(c) ==
  /\ call[c].req.kind = "pull"
  /\ call[c].req.status = "pending"
  /\ call' = [call EXCEPT ![c].req.status = "ok",
                          ![c].answers = Append(@, Answer("ok", <<>>))]
  /\ models' = [models EXCEPT !.installed = @ \cup {Tagged(call[c].req.prompt)}]
  /\ UNCHANGED <<config, history, available_agents, ncalls, session, registered, snapshot, caps, listed, audit>>

\* OllamaClient.pull_model: the POST raised; logged, False is returned.
PullRaises(c) ==
  /\ call[c].req.kind = "pull"
  /\ call[c].req.status = "pending"
  /\ call' = [call EXCEPT ![c].req.status = "failed",
                          ![c].answers = Append(@, Answer("failed", <<>>))]
  /\ UNCHANGED <<config, history, available_agents, ncalls, session, registered, snapshot, caps, listed, audit, models>>

\* ensure_model_available, pull_model returned: on success the list is
\* refreshed again, else False is returned.
EnsurePulled(c) ==
  /\ Awaiting(c, "ensure")
  /\ call[c].req.kind = "pull"
  /\ call[c].req.status # "pending"
  /\ IF call[c].req.status = "ok"
     THEN /\ call' = [call EXCEPT ![c].phase = "refresh_again", ![c].req = TagsRequest,
                                  ![c].log = Append(@, Logged(TagsRequest, ""))]
          /\ ncalls' = ncalls + 1
     ELSE /\ call' = [call EXCEPT ![c].pc = "done", ![c].outcome = "ok",
                                  ![c].result = <<"False">>]
          /\ UNCHANGED ncalls
  /\ UNCHANGED <<config, history, available_agents, session, registered, snapshot, caps, listed, audit, models>>

\* A model is installed on the server by other means than the ModelManager,
\* while no call is in flight.
OllamaInstalls(name) ==
  /\ \A c \in AllCallers : call[c].pc # "await"
  /\ name \notin models.installed
  /\ models' = [models EXCEPT !.installed = @ \cup {name}]
  /\ UNCHANGED <<config, history, available_agents, call, ncalls, session, registered, snapshot, caps, listed, audit>>

----------------------------------------------------------------------------
Init ==
  /\ config = [a \in Agents |-> InitialConfig(a)]
  /\ history = [a \in Agents |-> <<>>]
  /\ available_agents = <<>>
  /\ call = [c \in AllCallers |-> Idle]
  /\ ncalls = 0
  /\ session = [a \in Agents |-> Fresh]
  /\ registered = NoneRegistered
  /\ snapshot = NoSnapshot
  /\ caps = NoCaps
  /\ listed = NoList
  /\ audit = [a \in Agents |-> NoAudit]
  /\ models = NoModels

\* The agents the callers of Spec call directly.
Direct == {"coordinator", "researcher"}

\* One caller using two agents, one call after the other.
Next ==
  \/ \E a \in Direct, t \in Texts, x \in Contexts : RunStart("c1", a, t, x)
  \/ GenerateResponds("c1", Reply(ncalls))
  \/ GenerateRaises("c1")
  \/ RunReturn("c1")
  \/ RunRaise("c1")
  \/ \E a \in Direct, m \in Texts : ChatStart("c1", a, m)
  \/ \E d \in WellFormed(ncalls) : ChatResponds("c1", d)
  \/ ChatRaises("c1")
  \/ ChatReturn("c1")
  \/ ChatRaise("c1")
  \/ \E a \in Direct : ResetConversation("c1", a)
  \/ RegisterAgent("c1", "researcher")
  \/ Return("c1")

Spec == Init /\ [][Next]_vars

\* One caller setting the coordinator up (registering agents), then planning
\* and delegating, one call after the other.
CoordNext ==
  \/ \E a \in Registrable : ncalls = 0 /\ RegisterAgent("c1", a)
  \/ \E t \in Texts : PlanStart("c1", t)
  \/ PlanReturn("c1")
  \/ PlanRaise("c1")
  \/ \E m \in DelegationMaps : DelegateStart("c1", <<"a">>, m)
  \/ GenerateResponds("c1", Reply(ncalls))
  \/ GenerateRaises("c1")
  \/ DelegateSubtaskReturn("c1")
  \/ DelegateSubtaskRaise("c1")
  \/ DelegateSynthReturn("c1")
  \/ DelegateSynthRaise("c1")
  \/ Return("c1")

CoordSpec == Init /\ [][CoordNext]_vars

\* The backend answers the request of c that is pending, or fails it: httpx
\* returns or raises within the client's timeout.
BackendAnswers(c) ==
  \/ GenerateResponds(c, Reply(ncalls))
  \/ GenerateRaises(c)

\* The event loop resumes delegate_and_synthesize once the run it awaits has
\* returned or raised.
DelegateResumes(c) ==
  \/ DelegateSubtaskReturn(c)
  \/ DelegateSubtaskRaise(c)
  \/ DelegateSynthReturn(c)
  \/ DelegateSynthRaise(c)

\* Registrations, then delegations, with a backend that answers every
\* request in the end and an event loop that resumes every coroutine whose
\* await has completed.
LiveNext ==
  \/ \E a \in Registrable : ncalls = 0 /\ RegisterAgent("c1", a)
  \/ \E m \in DelegationMaps : DelegateStart("c1", <<"a">>, m)
  \/ BackendAnswers("c1")
  \/ DelegateResumes("c1")
  \/ Return("c1")

LiveSpec ==
  /\ Init
  /\ [][LiveNext]_vars
  /\ WF_vars(BackendAnswers("c1"))
  /\ WF_vars(DelegateResumes("c1"))

\* One caller chatting with an agent, keeping and changing the list
\* get_conversation_history returned to it.
CopyNext ==
  \/ \E m \in Texts : ChatStart("c1", "researcher", m)
  \/ \E d \in WellFormed(ncalls) : ChatResponds("c1", d)
  \/ ChatRaises("c1")
  \/ ChatReturn("c1")
  \/ ChatRaise("c1")
  \/ ResetConversation("c1", "researcher")
  \/ GetConversationHistoryCall("c1", "researcher")
  \/ \E kind \in ListEdits : SnapshotEdit("c1", kind)
  \/ Return("c1")

CopySpec == Init /\ [][CopyNext]_vars

\* One agent, its chats and resets, and a caller that changes the turns
\* held by the lists get_conversation_history returns.
AliasNext ==
  \/ ChatStart("c1", "researcher", <<"a">>)
  \/ \E d \in WellFormed(ncalls) : ChatResponds("c1", d)
  \/ ChatRaises("c1")
  \/ ChatReturn("c1")
  \/ ChatRaise("c1")
  \/ ResetConversation("c1", "researcher")
  \/ GetConversationHistoryCall("c1", "researcher")
  \/ \E i \in 1..(2 * MaxCalls + 1), key \in TurnKeys : SnapshotTurnEdit("c1", i, key)
  \/ Return("c1")

AliasSpec == Init /\ [][AliasNext]_vars

\* One caller asking the agents of the three variants for their capabilities
\* and changing the list returned, between other calls.
CapabilitiesNext ==
  \/ \E a \in {"coordinator", "researcher", "coder"} : GetCapabilitiesCall("c1", a)
  \/ \E kind \in ListEdits : CapabilitiesEdit("c1", kind)
  \/ RunStart("c1", "researcher", <<"a">>, <<>>)
  \/ GenerateResponds("c1", Reply(ncalls))
  \/ GenerateRaises("c1")
  \/ RunReturn("c1")
  \/ RunRaise("c1")
  \/ ChatStart("c1", "coder", <<"a">>)
  \/ \E d \in WellFormed(ncalls) : ChatResponds("c1", d)
  \/ ChatRaises("c1")
  \/ ChatReturn("c1")
  \/ ChatRaise("c1")
  \/ \E a \in {"researcher", "coder"} : ResetConversation("c1", a)
  \/ RegisterAgent("c1", "researcher")
  \/ Return("c1")

CapabilitiesSpec == Init /\ [][CapabilitiesNext]_vars

\* One caller chatting with an agent, the backend answering with bodies of
\* any of the shapes.
MalformedNext ==
  \/ \E m \in Texts : ChatStart("c1", "researcher", m)
  \/ \E d \in WellFormed(ncalls) \cup Malformed : ChatResponds("c1", d)
  \/ ChatRaises("c1")
  \/ ChatReturn("c1")
  \/ ChatRaise("c1")
  \/ ResetConversation("c1", "researcher")
  \/ Return("c1")

MalformedSpec == Init /\ [][MalformedNext]_vars

\* The backend's answers of ConcurrentSpec name the caller they are for.
CallerNo(c) == IF c = "c1" THEN 1 ELSE 2

\* Two handlers of POST /api/chat chatting with one agent, their calls
\* overlapping as the event loop schedules them.
ConcurrentNext ==
  \/ \E c \in AllCallers, m \in Texts : ChatWithAgent(c, "researcher", m)
  \/ \E c \in AllCallers : \E d \in WellFormed(CallerNo(c)) : ChatResponds(c, d)
  \/ \E c \in AllCallers : ChatRaises(c)
  \/ \E c \in AllCallers : ChatReturn(c)
  \/ \E c \in AllCallers : ChatRaise(c)
  \/ \E c \in AllCallers : Return(c)

ConcurrentSpec == Init /\ [][ConcurrentNext]_vars

\* Two callers of one agent, each free to chat with it or to reset it while
\* the other's chat awaits the backend.
RaceNext ==
  \/ \E c \in AllCallers : ChatStart(c, "researcher", <<"a">>)
  \/ \E c \in AllCallers : ResetConversation(c, "researcher")
  \/ \E c \in AllCallers : \E d \in WellFormed(CallerNo(c)) : ChatResponds(c, d)
  \/ \E c \in AllCallers : ChatRaises(c)
  \/ \E c \in AllCallers : ChatReturn(c)
  \/ \E c \in AllCallers : ChatRaise(c)
  \/ \E c \in AllCallers : Return(c)

RaceSpec == Init /\ [][RaceNext]_vars

\* The server's POST /api/chat, one request at a time.
HttpNext ==
  \/ \E agent_id \in AgentIds, m \in Texts : ChatWithAgent("c1", agent_id, m)
  \/ \E d \in WellFormed(ncalls) : ChatResponds("c1", d)
  \/ ChatRaises("c1")
  \/ ChatReturn("c1")
  \/ ChatRaise("c1")
  \/ Return("c1")

HttpSpec == Init /\ [][HttpNext]_vars

\* The ModelManager's ensure_model_available and a server whose models
\* change between the calls.
ModelNext ==
  \/ \E model_key \in ModelKeys : EnsureModelAvailable("c1", model_key)
  \/ TagsResponds("c1")
  \/ TagsRaises("c1")
  \/ EnsureRefreshed("c1")
  \/ PullResponds("c1")
  \/ PullRaises("c1")
  \/ EnsurePulled("c1")
  \/ \E name \in ServerModels : OllamaInstalls(name)
  \/ Return("c1")

ModelSpec == Init /\ [][ModelNext]_vars

\* One caller registering agents, listing them and changing the list
\* returned to it.
RegistryNext ==
  \/ \E a \in Registrable : RegisterAgent("c1", a)
  \/ ListAvailableAgentsCall("c1")
  \/ \E kind \in ListEdits : ListedEdit("c1", kind)
  \/ Return("c1")

RegistrySpec == Init /\ [][RegistryNext]_vars

\* One caller using every operation of the layer, the coordinator being
\* registrable like any other agent.
LayerNext ==
  \/ \E a \in Direct : RunStart("c1", a, <<"a">>, <<>>)
  \/ \E a \in Direct : ChatStart("c1", a, <<"b">>)
  \/ \E a \in Direct : ResetConversation("c1", a)
  \/ \E a \in Direct : RegisterAgent("c1", a)
  \/ ListAvailableAgentsCall("c1")
  \/ PlanStart("c1", <<"a">>)
  \/ \E m \in LayerMaps : DelegateStart("c1", <<"a">>, m)
  \/ GenerateResponds("c1", Reply(ncalls))
  \/ GenerateRaises("c1")
  \/ \E d \in WellFormed(ncalls) : ChatResponds("c1", d)
  \/ ChatRaises("c1")
  \/ RunReturn("c1")
  \/ RunRaise("c1")
  \/ ChatReturn("c1")
  \/ ChatRaise("c1")
  \/ PlanReturn("c1")
  \/ PlanRaise("c1")
  \/ DelegateSubtaskReturn("c1")
  \/ DelegateSubtaskRaise("c1")
  \/ DelegateSynthReturn("c1")
  \/ DelegateSynthRaise("c1")
  \/ Return("c1")

LayerSpec == Init /\ [][LayerNext]_vars

----------------------------------------------------------------------------
\* Properties

Done(c, op) ==
  /\ call[c].op = op
  /\ call[c].pc = "done"

\* The request is the final synthesis run of delegate_and_synthesize.
IsSynthesis(req) ==
  /\ req.kind = "generate"
  /\ req.agent = "coordinator"
  /\ req.prompt # <<>>
  /\ req.prompt[1] = "Sintetiza los siguientes resultados"

\* The requests of log issued for the delegation entry of this name.
IssuedFor(log, name) == {i \in 1..Len(log) : log[i].name = name}

RECURSIVE Transcript(_)
\* [user:m1, assistant:r1, ..., user:mn, assistant:rn]
Transcript(chats) ==
  IF chats = <<>> THEN <<>>
  ELSE <<Turn("user", chats[1].m), Turn("assistant", chats[1].r)>>
       \o Transcript(Tail(chats))

ChatInFlight(a) ==
  \E c \in AllCallers : Awaiting(c, "chat") /\ call[c].agent = a

C2_SequentialChatsTranscript ==
  \A a \in Agents :
    (session[a].pure /\ ~ChatInFlight(a)) =>
      LET chats == session[a].chats
          h == history[a]
      IN /\ Len(h) = 2 * Len(chats)
         /\ \A i \in 1..Len(chats) :
              /\ h[2 * i - 1] = [role |-> "user", content |-> chats[i].m]
              /\ h[2 * i] = [role |-> "assistant", content |-> chats[i].r]
         /\ h = Transcript(chats)

\* Two chats with different messages have returned, one after the other.
C2_Witness ==
  \E a \in Agents :
    /\ session[a].pure
    /\ ~ChatInFlight(a)
    /\ Len(session[a].chats) = 2
    /\ session[a].chats[1].m # session[a].chats[2].m

\* C3: when the backend call of chat(m) fails, the error reaches the caller
\* and the history is the history before the call with the user turn of m
\* appended: no rollback of the user turn, no assistant turn.
C3_FailedChatKeepsUserTurn ==
  \A c \in AllCallers :
    (Done(c, "chat") /\ call[c].failed > 0) =>
      /\ call[c].outcome = "error"
      /\ call[c].result = <<>>
      /\ history = [call[c].before EXCEPT ![call[c].agent] =
                      Append(@, [role |-> "user", content |-> call[c].arg])]

\* A chat has failed on an agent whose history was not empty.
C3_Witness ==
  \E c \in AllCallers :
    /\ Done(c, "chat")
    /\ call[c].failed > 0
    /\ call[c].before[call[c].agent] # <<>>

RECURSIVE RegisteredSubtasks(_, _)
\* The subtasks a delegation map lists under names of the registry.
RegisteredSubtasks(agent_tasks, registry) ==
  IF agent_tasks = <<>> THEN 0
  ELSE (IF \E i \in 1..Len(registry) : registry[i].key = agent_tasks[1].key
        THEN Len(agent_tasks[1].val) ELSE 0)
       + RegisteredSubtasks(Tail(agent_tasks), registry)

\* C4: a successful delegate_and_synthesize issues exactly (subtasks listed
\* under registered names) + 1 generate requests: one run per subtask and
\* one synthesis run on the coordinator, which is the last; one request
\* when the map is empty or names no registered agent.
C4_DelegationRequestCount ==
  \A c \in AllCallers :
    (Done(c, "delegate") /\ call[c].outcome = "ok") =>
      LET log == call[c].log
          n == RegisteredSubtasks(call[c].agent_tasks, call[c].registry)
      IN /\ Len(log) = n + 1
         /\ \A i \in 1..Len(log) : log[i].req.kind = "generate"
         /\ IsSynthesis(log[Len(log)].req)
         /\ \A i \in 1..(Len(log) - 1) :
              /\ ~IsSynthesis(log[i].req)
              /\ log[i].name # ""

\* Registry {Researcher, Coder}, one subtask each: three requests.
C4_Witness ==
  \E c \in AllCallers :
    /\ Done(c, "delegate")
    /\ call[c].outcome = "ok"
    /\ Len(call[c].agent_tasks) = 2
    /\ Len(call[c].log) = 3
    /\ call[c].log[1].req.agent # call[c].log[2].req.agent

\* C5: when the backend fails on the k-th subtask run of
\* delegate_and_synthesize, the call raises that error; the failed request
\* is the last one issued (no further subtask, no synthesis) and no result
\* is returned.
C5_DelegationAbortsOnFailure ==
  \A c \in AllCallers :
    (/\ call[c].op = "delegate"
     /\ call[c].failed > 0
     /\ call[c].log[call[c].failed].name # "") =>
      /\ Len(call[c].log) = call[c].failed
      /\ \A i \in 1..Len(call[c].log) : ~IsSynthesis(call[c].log[i].req)
      /\ call[c].result = <<>>
      /\ call[c].outcome # "ok"
      /\ call[c].pc = "done" => call[c].outcome = "error"

\* The second subtask run has failed and the call has raised.
C5_Witness ==
  \E c \in AllCallers :
    /\ Done(c, "delegate")
    /\ call[c].failed = 2
    /\ call[c].log[2].name # ""

\* C6: an entry of the delegation map whose name is not registered is
\* skipped without an error: no request is issued for it, the registered
\* entries are still processed, and the synthesis request is issued with
\* nothing for that name in its results block.
C6_UnregisteredEntrySkipped ==
  \A c \in AllCallers :
    call[c].op = "delegate" =>
      LET k == call[c]
          unregistered(i) ==
            \A j \in 1..Len(k.registry) : k.registry[j].key # k.agent_tasks[i].key
      IN /\ \A i \in 1..Len(k.agent_tasks) :
              unregistered(i) =>
                /\ IssuedFor(k.log, k.agent_tasks[i].key) = {}
                /\ ~HasKey(k.results, k.agent_tasks[i].key)
         /\ (k.pc = "done" /\ k.failed = 0) =>
              /\ k.outcome = "ok"
              /\ IsSynthesis(k.log[Len(k.log)].req)
              /\ k.log[Len(k.log)].req.prompt = SynthesisTask(k.arg, k.results)
              /\ \A i \in 1..Len(k.agent_tasks) :
                   IF unregistered(i)
                   THEN \A j \in 1..Len(k.log[Len(k.log)].req.prompt) :
                          k.log[Len(k.log)].req.prompt[j] # Upper(k.agent_tasks[i].key)
                   ELSE /\ Cardinality(IssuedFor(k.log, k.agent_tasks[i].key))
                             = Len(k.agent_tasks[i].val)
                        /\ HasKey(k.results, k.agent_tasks[i].key)

\* A map with an unregistered name before a registered one, both with a
\* subtask, has been delegated and synthesized.
C6_Witness ==
  \E c \in AllCallers :
    /\ Done(c, "delegate")
    /\ call[c].outcome = "ok"
    /\ Len(call[c].agent_tasks) = 2
    /\ call[c].agent_tasks[1].val # <<>>
    /\ call[c].agent_tasks[2].val # <<>>
    /\ ~HasKey(call[c].registry, call[c].agent_tasks[1].key)
    /\ HasKey(call[c].registry, call[c].agent_tasks[2].key)

\* C7: after any sequence of registrations every name registered occurs
\* exactly once in list_available_agents and refers to the agent registered
\* last under it; register_agent(A) then register_agent(A') of the same
\* name leaves the name once, mapped to A'.
C7_LastRegistrationWins ==
  \A n \in AgentNames :
    LET places == {i \in 1..Len(ListAvailableAgents) : ListAvailableAgents[i] = n}
    IN IF registered.latest[n] = "none"
       THEN places = {}
       ELSE /\ Cardinality(places) = 1
            /\ \A i \in places : available_agents[i].val = registered.latest[n]

\* A name has been registered again with another agent.
C7_Witness ==
  \E c \in AllCallers :
    /\ Done(c, "register")
    /\ config[call[c].agent].name \in registered.replaced
    /\ Len(available_agents) = 2

\* C8: reset_conversation followed by get_conversation_history yields the
\* empty sequence whatever the history was, a dangling user turn included,
\* and the reset changes nothing else: not the other histories, the
\* configurations or the registry.
C8_ResetEmptiesHistoryOnly ==
  \A c \in AllCallers :
    Done(c, "reset") =>
      /\ Deref(GetConversationHistory(call[c].agent), call[c].agent) = <<>>
      /\ \A b \in Agents \ {call[c].agent} : history[b] = call[c].before[b]
      /\ available_agents = call[c].registry
      /\ config = [a \in Agents |-> InitialConfig(a)]

\* A history ending in the user turn of a failed chat has been reset, an
\* agent being registered.
C8_Witness ==
  \E c \in AllCallers :
    /\ Done(c, "reset")
    /\ Len(call[c].before[call[c].agent]) >= 3
    /\ call[c].before[call[c].agent][Len(call[c].before[call[c].agent])].role = "user"
    /\ available_agents # <<>>

\* C9: get_conversation_history returns the current history as a list of
\* its own: the caller appending to, removing from, replacing in or
\* reordering the list changes no history, and the chat and reset calls that
\* follow do not change the list the caller holds.
C9_ReturnedHistoryIsACopy ==
  /\ snapshot.agent # "none" =>
       Deref(snapshot, snapshot.agent) = snapshot.expected
  /\ \A c \in AllCallers :
       /\ Done(c, "edit_list") => history = call[c].before
       /\ Done(c, "get_history") =>
            /\ history = call[c].before
            /\ Deref(snapshot, call[c].agent) = history[call[c].agent]

\* The caller changed a non-empty list returned to it, then a chat on the
\* agent returned.
C9_Witness ==
  \E c \in AllCallers :
    /\ Done(c, "chat")
    /\ call[c].outcome = "ok"
    /\ call[c].agent = snapshot.agent
    /\ snapshot.edits > 0
    /\ snapshot.expected # <<>>
    /\ call[c].before[call[c].agent] # <<>>

\* C10: get_capabilities of a researcher, a coder or a coordinator returns
\* a non-empty list, equal to the one the agent returned first whatever was
\* called in between and however the caller changed a list returned before,
\* and the call changes no history, configuration or registry.
C10_CapabilitiesStable ==
  \A c \in AllCallers :
    Done(c, "get_capabilities") =>
      /\ call[c].result # <<>>
      /\ call[c].result = caps.first[call[c].agent]
      /\ caps.items = call[c].result
      /\ history = call[c].before
      /\ available_agents = call[c].registry
      /\ config = [a \in Agents |-> InitialConfig(a)]

\* The researcher, with a history and registered, is asked again after the
\* caller changed the list it returned before.
C10_Witness ==
  \E c \in AllCallers :
    /\ Done(c, "get_capabilities")
    /\ caps.stale
    /\ history[call[c].agent] # <<>>
    /\ HasKey(available_agents, config[call[c].agent].name)

RECURSIVE ExpectedRuns(_, _)
\* The subtasks of the registered names of a delegation map, in the order of
\* the map and, under a name, of its list.
ExpectedRuns(agent_tasks, registry) ==
  IF agent_tasks = <<>> THEN <<>>
  ELSE (IF \E i \in 1..Len(registry) : registry[i].key = agent_tasks[1].key
        THEN [j \in 1..Len(agent_tasks[1].val) |->
                [name |-> agent_tasks[1].key, subtask |-> agent_tasks[1].val[j]]]
        ELSE <<>>)
       \o ExpectedRuns(Tail(agent_tasks), registry)

\* C11: the backend requests of one delegate_and_synthesize are issued one
\* at a time, each after the one before it was answered, in the order of
\* the delegation map over the agents and of each agent's list over its
\* subtasks, the synthesis request coming after all of them.
C11_DelegationSequential ==
  \A c \in AllCallers :
    call[c].op = "delegate" =>
      LET k == call[c]
          runs == ExpectedRuns(k.agent_tasks, k.registry)
      IN /\ Len(k.log) - Len(k.answers) \in {0, 1}
         /\ \A i \in 1..Len(k.answers) : i < Len(k.log) => k.answers[i].status = "ok"
         /\ Len(k.log) <= Len(runs) + 1
         /\ \A i \in 1..Len(k.log) :
              IF i <= Len(runs)
              THEN /\ k.log[i].name = runs[i].name
                   /\ k.log[i].req.agent = Lookup(k.registry, runs[i].name)
                   /\ k.log[i].req.prompt = runs[i].subtask
              ELSE IsSynthesis(k.log[i].req)

\* Two registered agents with different subtasks have been run and the
\* results synthesized.
C11_Witness ==
  \E c \in AllCallers :
    /\ Done(c, "delegate")
    /\ call[c].outcome = "ok"
    /\ Len(call[c].log) = 3
    /\ call[c].log[1].name # call[c].log[2].name
    /\ call[c].log[1].req.prompt # call[c].log[2].req.prompt

\* C12: in a successful delegate_and_synthesize the results hold, for each
\* registered name of the map and no other, one output per subtask in the
\* order of the list: the i-th is what the backend answered to the run of
\* that agent on its i-th subtask.
C12_ResultsPerSubtask ==
  \A c \in AllCallers :
    (Done(c, "delegate") /\ call[c].outcome = "ok") =>
      LET k == call[c]
          first(i) == RegisteredSubtasks(SubSeq(k.agent_tasks, 1, i - 1), k.registry)
      IN /\ \A n \in {k.results[i].key : i \in 1..Len(k.results)} :
              \E i \in 1..Len(k.agent_tasks) :
                k.agent_tasks[i].key = n /\ HasKey(k.registry, n)
         /\ \A i \in 1..Len(k.agent_tasks) :
              HasKey(k.registry, k.agent_tasks[i].key) =>
                /\ HasKey(k.results, k.agent_tasks[i].key)
                /\ LET out == Lookup(k.results, k.agent_tasks[i].key)
                       subtasks == k.agent_tasks[i].val
                   IN /\ Len(out) = Len(subtasks)
                      /\ \A j \in 1..Len(subtasks) :
                           /\ k.log[first(i) + j].req.prompt = subtasks[j]
                           /\ k.log[first(i) + j].req.agent
                                = Lookup(k.registry, k.agent_tasks[i].key)
                           /\ out[j] = k.answers[first(i) + j].text

\* An agent has run two subtasks and both outputs are in its results.
C12_Witness ==
  \E c \in AllCallers :
    /\ Done(c, "delegate")
    /\ call[c].outcome = "ok"
    /\ \E i \in 1..Len(call[c].agent_tasks) :
         /\ Len(call[c].agent_tasks[i].val) = 2
         /\ HasKey(call[c].results, call[c].agent_tasks[i].key)
         /\ Len(Lookup(call[c].results, call[c].agent_tasks[i].key)) = 2

\* C13: chat(m) sends to the backend, in one request, the whole history of
\* the agent as it is at the call, every turn in order, followed by the
\* user turn of m.
C13_ChatSendsWholeHistory ==
  \A c \in AllCallers :
    call[c].op = "chat" =>
      /\ Len(call[c].log) = 1
      /\ call[c].log[1].req.kind = "chat"
      /\ call[c].log[1].req.agent = call[c].agent
      /\ call[c].log[1].req.messages
           = call[c].before[call[c].agent]
             \o <<[role |-> "user", content |-> call[c].arg]>>

\* A chat is awaiting the backend, the history having held four turns.
C13_Witness ==
  \E c \in AllCallers :
    /\ Awaiting(c, "chat")
    /\ Len(call[c].before[call[c].agent]) = 4
    /\ call[c].before[call[c].agent][1] # call[c].before[call[c].agent][3]

\* C14: a run issues exactly one generate request, not streaming; when the
\* request fails the error reaches the caller, no other request is made
\* and the histories are as they were before the call.
C14_RunIssuesOneRequest ==
  \A c \in AllCallers :
    call[c].op = "run" =>
      /\ Len(call[c].log) = 1
      /\ call[c].log[1].req.kind = "generate"
      /\ call[c].log[1].req.agent = call[c].agent
      /\ ~call[c].log[1].req.stream
      /\ Len(call[c].answers) <= 1
      /\ call[c].failed > 0 =>
           /\ call[c].outcome # "ok"
           /\ call[c].result = <<>>
           /\ history = call[c].before
           /\ call[c].pc = "done" => call[c].outcome = "error"

\* A run has failed on an agent with a history.
C14_Witness ==
  \E c \in AllCallers :
    /\ Done(c, "run")
    /\ call[c].failed > 0
    /\ call[c].before[call[c].agent] # <<>>

\* C15: when the body of a successful chat response has no reply (no
\* "message", a "message" without "content", or a "message" that is no
\* mapping), chat does not fail: it returns the whole body as a string and
\* appends that string as the assistant turn.
C15_MalformedReplyStringified ==
  \A c \in AllCallers :
    (/\ Done(c, "chat")
     /\ call[c].req.status = "ok"
     /\ call[c].req.data \in Malformed) =>
      /\ call[c].outcome = "ok"
      /\ call[c].result = Str(call[c].req.data)
      /\ history = [call[c].before EXCEPT ![call[c].agent] =
                      @ \o <<[role |-> "user", content |-> call[c].arg],
                             [role |-> "assistant", content |-> Str(call[c].req.data)]>>]

\* The agents of a registry.
RegisteredAgents(registry) == {registry[i].val : i \in 1..Len(registry)}

C17_PlanTaskOneRun ==
  \A c \in AllCallers :
    call[c].op = "plan" =>
      LET k == call[c]
          capabilities ==
            [i \in 1..Len(k.registry) |->
               [key |-> k.registry[i].key,
                val |-> CASE Variant(k.registry[i].val) = "Researcher" ->
                               ResearcherCapabilities
                          [] Variant(k.registry[i].val) = "Coder" -> CoderCapabilities
                          [] OTHER -> CoordinatorCapabilities]]
      IN /\ Len(k.log) = 1
         /\ k.log[1].req.kind = "generate"
         /\ k.log[1].req.agent = "coordinator"
         /\ k.log[1].req.prompt = PlanningTask(k.arg, capabilities)
         /\ \A b \in Agents \ {"coordinator"} : history[b] = k.before[b]
         /\ (k.pc = "done" /\ k.failed = 0) =>
              /\ k.outcome = "ok"
              /\ k.record.task = k.arg
              /\ k.record.plan = k.answers[1].text
         /\ k.failed > 0 =>
              /\ k.outcome # "ok"
              /\ k.record = NoRecord
              /\ k.pc = "done" => k.outcome = "error"

\* plan_task has returned its mapping, two agents being registered.
C17_Witness ==
  \E c \in AllCallers :
    /\ Done(c, "plan")
    /\ call[c].outcome = "ok"
    /\ Len(call[c].registry) = 2
    /\ call[c].record.plan # <<>>

\* C19: list_available_agents returns the names of the registry in the
\* order of their first registration, registering a name again not moving
\* it; the list returned is the caller's: registrations that follow do not
\* change it and the caller changing it does not change the registry.
C19_ListInRegistrationOrder ==
  /\ ListAvailableAgents = registered.order
  /\ listed.held => listed.items = listed.expected
  /\ \A c \in AllCallers :
       /\ Done(c, "list") =>
            /\ call[c].result = registered.order
            /\ listed.items = call[c].result
            /\ available_agents = call[c].registry
       /\ Done(c, "edit_list") => available_agents = call[c].registry

\* A name is registered again after another name, and the list the caller
\* took before and changed is not the current one.
C19_Witness ==
  \E c \in AllCallers :
    /\ Done(c, "register")
    /\ Len(available_agents) = 2
    /\ available_agents[1].key = config[call[c].agent].name
    /\ available_agents[1].key \in registered.replaced
    /\ listed.held
    /\ listed.edits > 0
    /\ listed.items # ListAvailableAgents

\* C20: no operation changes the configuration of an agent, so that every
\* agent of the registry is there under its configured name.
C20_ConfigurationFixed ==
  /\ config = [a \in Agents |-> InitialConfig(a)]
  /\ \A i \in 1..Len(available_agents) :
       available_agents[i].key = config[available_agents[i].val].name

\* A delegation to a registered agent has been synthesized, the agent
\* having chatted before.
C20_Witness ==
  \E c \in AllCallers :
    /\ Done(c, "delegate")
    /\ call[c].outcome = "ok"
    /\ Len(call[c].log) = 2
    /\ available_agents # <<>>
    /\ \E a \in Agents : call[c].before[a] # <<>>

\* C18: chat calls on one agent are not serialized, by the agent or by the
\* HTTP endpoint: when a chat d starts while a chat c awaits the backend,
\* the two user turns are adjacent in the history and each reply is
\* appended when its call resumes, in the order the calls complete.
C18_OverlappingChatsInterleave ==
  \A c, d \in AllCallers :
    (/\ c # d
     /\ call[c].op = "chat" /\ call[d].op = "chat"
     /\ call[c].agent = call[d].agent
     /\ call[c].overlapped /\ call[d].overlapped
     /\ call[d].before[call[d].agent]
          = Append(call[c].before[call[c].agent],
                   [role |-> "user", content |-> call[c].arg])) =>
      LET h == history[call[c].agent]
          both == call[c].before[call[c].agent]
                  \o <<[role |-> "user", content |-> call[c].arg],
                       [role |-> "user", content |-> call[d].arg]>>
          rc == [role |-> "assistant", content |-> call[c].result]
          rd == [role |-> "assistant", content |-> call[d].result]
          ok(e) == call[e].pc = "done" /\ call[e].outcome = "ok"
      IN /\ (call[c].pc = "await" /\ call[d].pc = "await") => h = both
         /\ (ok(c) /\ call[d].pc = "await") => h = both \o <<rc>>
         /\ (ok(d) /\ call[c].pc = "await") => h = both \o <<rd>>
         /\ (ok(c) /\ ok(d)) => h \in {both \o <<rc, rd>>, both \o <<rd, rc>>}

\* The chat that started second completed first: its reply precedes the
\* reply of the first, after the two user turns.
C18_Witness ==
  \E c, d \in AllCallers :
    /\ Done(c, "chat") /\ Done(d, "chat")
    /\ call[c].outcome = "ok" /\ call[d].outcome = "ok"
    /\ call[c].result # call[d].result
    /\ call[c].arg # call[d].arg
    /\ call[c].before["researcher"] # <<>>
    /\ history["researcher"]
         = call[c].before["researcher"]
           \o <<[role |-> "user", content |-> call[c].arg],
                [role |-> "user", content |-> call[d].arg],
                [role |-> "assistant", content |-> call[d].result],
                [role |-> "assistant", content |-> call[c].result]>>

----------------------------------------------------------------------------
IsPrefix(p, h) == Len(p) <= Len(h) /\ SubSeq(h, 1, Len(p)) = p

\* The step is reset_conversation() on a.
ResetStep(a) ==
  \E c \in AllCallers :
    /\ call[c].pc = "idle"
    /\ call'[c].op = "reset"
    /\ call'[c].agent = a

\* C21: between two resets the history of an agent is append-only: every step
\* of every operation other than reset_conversation on that agent leaves the
\* history it found as a prefix of the history it leaves, so that no turn is
\* removed, reordered or rewritten and the length never decreases.
C21_AppendOnlyBetweenResets ==
  [][\A a \in Agents : ResetStep(a) \/ IsPrefix(history[a], history'[a])]_vars

\* A chat on an agent whose history holds the turns of a run has raised.
C21_Witness ==
  \E c \in AllCallers :
    /\ Done(c, "chat")
    /\ call[c].failed > 0
    /\ Len(call[c].before[call[c].agent]) = 2
    /\ Len(history[call[c].agent]) = 3

----------------------------------------------------------------------------
\* The agents delegate_and_synthesize runs for the map: those registered
\* under its names.
DelegatedAgents(agent_tasks, registry) ==
  {Lookup(registry, agent_tasks[i].key) :
     i \in {j \in 1..Len(agent_tasks) : HasKey(registry, agent_tasks[j].key)}}

RECURSIVE SavedTurns(_, _, _)
\* The turns the runs of log that were answered saved in the history of a.
SavedTurns(log, answers, a) ==
  IF log = <<>> \/ answers = <<>> THEN <<>>
  ELSE (IF log[1].req.agent = a /\ answers[1].status = "ok"
        THEN <<Turn("user", log[1].req.prompt),
               Turn("assistant", answers[1].text)>>
        ELSE <<>>)
       \o SavedTurns(Tail(log), Tail(answers), a)

----------------------------------------------------------------------------
\* C23, as stated: the list get_conversation_history returns is independent
\* of the agent down to the turn: changing the role or the content of a turn
\* held by the returned list leaves every history, and so what the next
\* chat sends, as it was.
C23_ReturnedTurnsIndependent ==
  \A c \in AllCallers :
    Done(c, "edit_turn") => history = call[c].before

----------------------------------------------------------------------------
\* The turns of h with this role.
Turns(h, role) == Cardinality({i \in 1..Len(h) : h[i].role = role})

Alternates(h) ==
  \A i \in 1..Len(h) : h[i].role = (IF i % 2 = 1 THEN "user" ELSE "assistant")

\* C24: when every call was made after the one before had completed and no
\* call awaits the backend, the user turns of an agent's history exceed its
\* assistant turns by the number of chat calls on it that failed since its
\* last reset; with no failed chat the length is even and the turns
\* alternate from a user turn on; and a chat(m) that succeeds right after a
\* chat(m) that failed leaves two consecutive user turns of content m before
\* its assistant turn.
C24_UnansweredTurnsAreFailedChats ==
  /\ (\A c \in AllCallers : call[c].pc # "await") =>
       \A a \in Agents :
         /\ Turns(history[a], "user") - Turns(history[a], "assistant")
              = audit[a].nfailed
         /\ audit[a].nfailed = 0 =>
              /\ Len(history[a]) % 2 = 0
              /\ Alternates(history[a])
  /\ \A c \in AllCallers :
       LET h == call[c].before[call[c].agent]
           m == Turn("user", call[c].arg)
       IN (/\ Done(c, "chat")
           /\ call[c].outcome = "ok"
           /\ audit[call[c].agent].nfailed > 0
           /\ h # <<>>
           /\ h[Len(h)] = m) =>
            history[call[c].agent] =
              h \o <<m, Turn("assistant", call[c].result)>>

\* chat(m) failed, then chat(m) returned: two unanswered-looking user turns
\* of m in a row, one of them from the failed call.
C24_Witness ==
  \E c \in AllCallers :
    LET h == history[call[c].agent]
    IN /\ Done(c, "chat")
       /\ call[c].outcome = "ok"
       /\ audit[call[c].agent].nfailed = 1
       /\ Len(h) = 3
       /\ h[1] = h[2]
       /\ h[1] = Turn("user", call[c].arg)
       /\ h[3].role = "assistant"

----------------------------------------------------------------------------
\* A non-empty history starts with a user turn and each of its assistant
\* turns comes right after a user turn.
Paired(h) ==
  \A i \in 1..Len(h) :
    h[i].role = "assistant" => (i > 1 /\ h[i - 1].role = "user")

----------------------------------------------------------------------------
RECURSIVE RegisteredNames(_, _)
\* The names of the map that are registered, in the order of the map.
RegisteredNames(agent_tasks, registry) ==
  IF agent_tasks = <<>> THEN <<>>
  ELSE (IF HasKey(registry, agent_tasks[1].key)
        THEN <<agent_tasks[1].key>> ELSE <<>>)
       \o RegisteredNames(Tail(agent_tasks), registry)

\* The positions of the prompt where the header of this name starts.
Headers(prompt, name) ==
  {j \in 1..(Len(prompt) - 2) :
     SubSeq(prompt, j, j + 2) = <<"===", Upper(name), "===">>}

\* C26: the results of a delegate_and_synthesize that reached its synthesis
\* have an entry for exactly the names of the map that are registered, in
\* the order of the map: an unregistered name has no entry and no header in
\* the synthesis prompt; a registered name with an empty subtask list has
\* an entry with an empty list, its header in the prompt with no subtask
\* under it, and no run was issued for it.
C26_ResultsForRegisteredNamesOnly ==
  \A c \in AllCallers :
    (call[c].op = "delegate" /\ call[c].phase = "synth") =>
      LET k == call[c]
          prompt == k.log[Len(k.log)].req.prompt
      IN /\ Keys(k.results) = RegisteredNames(k.agent_tasks, k.registry)
         /\ prompt = SynthesisTask(k.arg, k.results)
         /\ \A i \in 1..Len(k.agent_tasks) :
              LET name == k.agent_tasks[i].key
              IN IF ~HasKey(k.registry, name)
                 THEN /\ Headers(prompt, name) = {}
                      /\ IssuedFor(k.log, name) = {}
                 ELSE /\ Cardinality(Headers(prompt, name)) = 1
                      /\ k.agent_tasks[i].val = <<>> =>
                           /\ Lookup(k.results, name) = <<>>
                           /\ IssuedFor(k.log, name) = {}
                           /\ \A j \in Headers(prompt, name) :
                                prompt[j + 3] # "Subtarea"

\* The map names an unregistered agent with a subtask and a registered one
\* with no subtask, and the synthesis has returned.
C26_Witness ==
  \E c \in AllCallers :
    /\ Done(c, "delegate")
    /\ call[c].outcome = "ok"
    /\ Len(call[c].agent_tasks) = 2
    /\ \E i, j \in 1..2 :
         /\ ~HasKey(call[c].registry, call[c].agent_tasks[i].key)
         /\ call[c].agent_tasks[i].val # <<>>
         /\ HasKey(call[c].registry, call[c].agent_tasks[j].key)
         /\ call[c].agent_tasks[j].val = <<>>
    /\ Len(call[c].results) = 1
    /\ Len(call[c].log) = 1

----------------------------------------------------------------------------
\* The step is register_agent, called by some caller.
RegisterStep ==
  \E c \in AllCallers :
    /\ call[c].pc = "idle"
    /\ call'[c].op = "register"

\* C27: no step of plan_task or delegate_and_synthesize, returning or
\* raising, and no step of any operation but register_agent changes the
\* registry: its names and the agent under each stay the same; and
\* register_agent removes no name.
C27_RegistryChangedByRegisterOnly ==
  [][/\ available_agents' # available_agents => RegisterStep
     /\ \A i \in 1..Len(available_agents) :
          HasKey(available_agents', available_agents[i].key)]_vars

\* delegate_and_synthesize has raised with two names in the registry.
C27_Witness ==
  \E c \in AllCallers :
    /\ Done(c, "delegate")
    /\ call[c].outcome = "error"
    /\ Len(call[c].registry) = 2
    /\ available_agents = call[c].registry

----------------------------------------------------------------------------
\* C29: POST /api/chat answers a request whose lower-cased agent id is not
\* one of the server's agents with 404, not with 500, having called no agent
\* and no backend and changed no history; only known agents are chatted
\* with; and when the backend fails during the chat of a known agent the
\* answer is 500 and the agent's history has gained the user turn of the
\* request and nothing else.
C29_UnknownAgent404BackendFailure500 ==
  \A c \in AllCallers :
    /\ Done(c, "chat_with_agent") =>
         /\ call[c].agent \notin ServerAgents
         /\ ChatEndpointStatus(call[c]) = 404
         /\ call[c].log = <<>>
         /\ history = call[c].before
    /\ call[c].op = "chat" => call[c].agent \in ServerAgents
    /\ (Done(c, "chat") /\ call[c].failed > 0) =>
         /\ ChatEndpointStatus(call[c]) = 500
         /\ history = [call[c].before EXCEPT ![call[c].agent] =
                         Append(@, Turn("user", call[c].arg))]
    /\ (Done(c, "chat") /\ call[c].outcome = "ok") =>
         ChatEndpointStatus(call[c]) = 200

\* An unknown id in upper case was answered after chats with a known agent
\* had changed its history.
C29_Witness ==
  \E c \in AllCallers :
    /\ Done(c, "chat_with_agent")
    /\ call[c].agent = "ghost"
    /\ Len(call[c].before["researcher"]) = 3
    /\ Len(call[c].before["coder"]) = 1

----------------------------------------------------------------------------
\* C28: provided every backend request is answered or fails in the end,
\* every delegate_and_synthesize call completes in the end, returning or
\* raising; and at no moment is the call blocked on anything but a backend
\* request that is pending: when the request it awaits has been answered or
\* has failed, the call can take its next step.
C28_DelegationCompletes ==
  /\ [](\A c \in AllCallers :
          (Awaiting(c, "delegate") /\ call[c].req.status # "pending") =>
            ENABLED <<DelegateResumes(c)>>_vars)
  /\ \A c \in AllCallers : Awaiting(c, "delegate") ~> Done(c, "delegate")

\* A delegation of two subtasks has completed by raising at its synthesis.
C28_Witness ==
  \E c \in AllCallers :
    /\ Done(c, "delegate")
    /\ call[c].outcome = "error"
    /\ call[c].phase = "synth"
    /\ Len(call[c].answers) = 3

----------------------------------------------------------------------------
\* C30, as stated: ensure_model_available downloads only when it must. For a
\* key outside the catalog it returns False and issues no request. For a
\* key of the catalog, tagged backend names included, and a listing that the
\* backend answered: when the server held the model at the call it returns
\* True without a pull, and a pull is issued exactly when the server did not
\* hold the model.
C30_DownloadsOnlyIfNecessary ==
  \A c \in AllCallers :
    Done(c, "ensure") =>
      LET model_key == call[c].arg[1]
          pulls == {i \in 1..Len(call[c].log) : call[c].log[i].req.kind = "pull"}
      IN IF ~HasKey(ModelsCatalog, model_key)
         THEN call[c].result = <<"False">> /\ call[c].log = <<>>
         ELSE call[c].answers[1].status = "ok" =>
                LET held == Tagged(Lookup(ModelsCatalog, model_key)) \in models.at_call
                IN /\ held => call[c].result = <<"True">>
                   /\ (pulls # {}) <=> ~held

====
